---- MODULE Spec2Model ----
(***************************************************************************)
(* State machine of the media editor: VideoEditor (video-edior.tsx) owns   *)
(* the element store, the selection and the playback clock; every         *)
(* MediaItem (media-item.tsx) owns its drag / resize session state.        *)
(*                                                                         *)
(* Each action is one event handler together with the re-render and the   *)
(* effects React runs after it.  Times are counted in tenths of a second  *)
(* (the interval adds 0.1 per tick), lengths in CSS pixels.  A null       *)
(* timerRef / selectedElement is written 0.                                *)
(*                                                                         *)
(* video[i] is the <video> element behind the videoRef of item i, cmd[i]   *)
(* the calls the two video effects of item i made in the last step.  The   *)
(* player never feeds back into the editor state, so Spec leaves it out    *)
(* (video and cmd stay empty) and SpecVideo composes the handlers with     *)
(* the video effects.  SpecPair is the editor with two elements and the    *)
(* clock at rest.                                                          *)
(***************************************************************************)
EXTENDS Integers, Sequences, FiniteSets, TLC

VARIABLES mediaElements, selectedElement, isPlaying, currentTime,
          timerRef, intervals, revoked, dateNow,
          items, isVisibleProp, sess, lastEvent,
          video, cmd

vars == <<mediaElements, selectedElement, isPlaying, currentTime,
          timerRef, intervals, revoked, dateNow, items, isVisibleProp, sess,
          lastEvent, video, cmd>>

(***************************************************************************)
(* Program constants                                                       *)
(***************************************************************************)
Duration == 600
TickDelta == 1
MinSize == 50
DefaultWidth == 320
DefaultHeight == 240
DefaultX == 100
DefaultY == 100
ImageEndTime == 100
VideoEndTime == 300
CanvasLeft == 288
CanvasTop == 0
SelectedZ == 10
UnselectedZ == 1
ResyncThreshold == 2

(***************************************************************************)
(* Bounds of the model and the inputs the events are drawn from            *)
(***************************************************************************)
MaxElements == 1
MaxTicks == 2
MaxPairElements == 2
MaxLead == 3

Pt(a, b) == [x |-> a, y |-> b]

Kinds == {"image", "video"}
SeekTargets == {0, 598}
PointerPositions == {Pt(588, 300), Pt(300, 30)}
PressOffsets == {Pt(5, 5)}
SizeEdits == {10}
StartTimeEdits == {2}
EndTimeEdits == {1}
VideoSeekTargets == {0, 120}
PairPressOffsets == {Pt(5, 5), Pt(200, 5)}
PairPointerPositions == {Pt(300, 30)}
VideoStartTimeEdits == {50}

\* Ticks are delivered only within MaxTicks of a seek target or of the end of
\* the timeline, which keeps the reachable clock values few while the wrap at
\* the end stays reachable.
TickInBounds(t) ==
    \E s \in SeekTargets \cup VideoSeekTargets \cup {Duration} : s <= t /\ t < s + MaxTicks

(***************************************************************************)
(* Pure helpers                                                            *)
(***************************************************************************)
Max(a, b) == IF a >= b THEN a ELSE b

\* Faulty variant of IsVisible: both bounds exclusive.
IsVisibleExclusive(element, time) == time > element.startTime /\ time < element.endTime

\* video-edior.tsx:248  the isVisible prop
IsVisible(element, time) == time >= element.startTime /\ time <= element.endTime

Render(els, time) == [i \in 1..Len(els) |-> IsVisible(els[i], time)]

\* video-edior.tsx:247
IsSelected(i) == mediaElements[i].id = selectedElement

\* video-edior.tsx:34  mediaElements.find(m => m.id === selectedElement)
HasSelectedMedia == \E i \in 1..Len(mediaElements) : IsSelected(i)
SelectedIndex == CHOOSE i \in 1..Len(mediaElements) :
                    /\ IsSelected(i)
                    /\ \A j \in 1..(i - 1) : ~IsSelected(j)

\* video-edior.tsx:75-77
updateMediaProperty(els, id, property, value) ==
    [i \in 1..Len(els) |->
        IF els[i].id = id THEN [els[i] EXCEPT ![property] = value] ELSE els[i]]

\* video-edior.tsx:250-253
onDragEnd(els, id, x, y) ==
    updateMediaProperty(updateMediaProperty(els, id, "x", x), id, "y", y)

\* video-edior.tsx:254-257
onResize(els, id, width, height) ==
    updateMediaProperty(updateMediaProperty(els, id, "width", width), id, "height", height)

\* clearInterval: cancelling an id that is not active changes nothing
ClearInterval(ivs, id) == ivs \ {id}

\* setInterval returns an id no live interval or reference holds
FreshId(ivs, ref) ==
    CHOOSE n \in 1..(Cardinality(ivs) + 2) :
        /\ n \notin ivs \cup {ref}
        /\ \A m \in 1..(n - 1) : m \in ivs \cup {ref}

\* video-edior.tsx:93-109  timerRef.current = setInterval(...); the earlier
\* interval, if any, is not cancelled
startPlaybackTimer(st) ==
    LET id == FreshId(st.ivs, st.ref)
    IN  [ref |-> id, ivs |-> st.ivs \cup {id}]

\* video-edior.tsx:122-132  the effect depends on [mediaElements]: its cleanup
\* runs after every render in which the array was replaced
CleanupIntervals(ivs, ref) == IF ref # 0 THEN ClearInterval(ivs, ref) ELSE ivs
CleanupRevoked(els) == revoked \cup {els[i].src : i \in 1..Len(els)}

\* media-item.tsx:52-56  the effect depends on the four geometry props
GeometryChanged(old, new) ==
    \/ old.x # new.x \/ old.y # new.y
    \/ old.width # new.width \/ old.height # new.height
SyncItems(its, old, new) ==
    [i \in 1..Len(its) |->
        IF i <= Len(old) /\ GeometryChanged(old[i], new[i])
        THEN [its[i] EXCEPT !.position = Pt(new[i].x, new[i].y),
                            !.dimensions = [width |-> new[i].width, height |-> new[i].height]]
        ELSE its[i]]

\* media-item.tsx:44-48  state of a freshly mounted MediaItem
NewItem(element) ==
    [isDragging |-> FALSE, isResizing |-> FALSE,
     dragOffset |-> Pt(0, 0),
     position   |-> Pt(element.x, element.y),
     dimensions |-> [width |-> element.width, height |-> element.height]]

\* Bookkeeping of the running session of an item (not program state): the
\* pointer at press, the last pointer delivered, the stored top-left at press
\* and whether the clock was running at press.  lastEvent names the handler
\* that produced the state.
NoSess == [press |-> Pt(0, 0), last |-> Pt(0, 0), stored |-> Pt(0, 0), wasPlaying |-> FALSE]

\* media-item.tsx:64, 92  getBoundingClientRect of the rendered element
RectLeft(i) == CanvasLeft + items[i].position.x
RectTop(i) == CanvasTop + items[i].position.y

\* Faulty variant of ZIndex: the selection does not raise an element.
ZIndexFlat(i) == UnselectedZ

\* media-item.tsx:163
ZIndex(i) == IF IsSelected(i) THEN SelectedZ ELSE UnselectedZ

Inside(i, p) ==
    /\ isVisibleProp[i]
    /\ RectLeft(i) <= p.x /\ p.x < RectLeft(i) + items[i].dimensions.width
    /\ RectTop(i) <= p.y /\ p.y < RectTop(i) + items[i].dimensions.height
Above(i, j) == ZIndex(i) > ZIndex(j) \/ (ZIndex(i) = ZIndex(j) /\ i > j)
Topmost(i, p) ==
    /\ Inside(i, p)
    /\ \A j \in 1..Len(items) : (j # i /\ Inside(j, p)) => Above(i, j)

(***************************************************************************)
(* Initial state: VideoEditor just mounted                                 *)
(***************************************************************************)
Init ==
    /\ mediaElements = <<>>
    /\ selectedElement = 0
    /\ isPlaying = FALSE
    /\ currentTime = 0
    /\ timerRef = 0
    /\ intervals = {}
    /\ revoked = {}
    /\ dateNow = 0
    /\ items = <<>>
    /\ isVisibleProp = <<>>
    /\ sess = <<>>
    /\ lastEvent = "mount"
    /\ video = <<>>
    /\ cmd = <<>>

(***************************************************************************)
(* Element store                                                           *)
(***************************************************************************)
\* A replaced mediaElements array: re-render, prop-sync effect of every item,
\* cleanup of the [mediaElements] effect.
StoreReplaced(newEls, newItems, st) ==
    /\ mediaElements' = newEls
    /\ items' = SyncItems(newItems, mediaElements, newEls)
    /\ timerRef' = st.ref
    /\ intervals' = CleanupIntervals(st.ivs, st.ref)
    /\ revoked' = CleanupRevoked(mediaElements)

\* video-edior.tsx:37-72
AddElement(kind, elapsed) ==
    /\ Len(mediaElements) = 0 => elapsed = 1
    /\ LET newElement ==
            [id |-> dateNow + elapsed, type |-> kind, src |-> Len(mediaElements) + 1,
             width |-> DefaultWidth, height |-> DefaultHeight,
             x |-> DefaultX, y |-> DefaultY, startTime |-> 0,
             endTime |-> IF kind = "video" THEN VideoEndTime ELSE ImageEndTime]
       IN  /\ StoreReplaced(Append(mediaElements, newElement),
                            Append(items, NewItem(newElement)),
                            [ref |-> timerRef, ivs |-> intervals])
           /\ selectedElement' = newElement.id
           /\ dateNow' = dateNow + elapsed
           /\ sess' = Append(sess, NoSess)
           /\ isVisibleProp' = Render(mediaElements', currentTime)
    /\ UNCHANGED <<isPlaying, currentTime>>
    /\ lastEvent' = "upload"

\* the file input, with at most MaxElements files ever chosen
handleFileUpload(kind, elapsed) ==
    /\ Len(mediaElements) < MaxElements
    /\ AddElement(kind, elapsed)

\* video-edior.tsx:166-233  the inputs of the properties panel
EditProperty(property, value) ==
    /\ HasSelectedMedia
    /\ StoreReplaced(updateMediaProperty(mediaElements, mediaElements[SelectedIndex].id,
                                         property, value),
                     items, [ref |-> timerRef, ivs |-> intervals])
    /\ isVisibleProp' = Render(mediaElements', currentTime)
    /\ UNCHANGED <<selectedElement, isPlaying, currentTime, dateNow, sess>>
    /\ lastEvent' = "edit"

(***************************************************************************)
(* Playback clock                                                          *)
(***************************************************************************)
\* video-edior.tsx:80-90
togglePlayback ==
    /\ IF isPlaying
       THEN /\ intervals' = IF timerRef # 0 THEN ClearInterval(intervals, timerRef) ELSE intervals
            /\ timerRef' = 0
            /\ isPlaying' = FALSE
       ELSE LET st == startPlaybackTimer([ref |-> timerRef, ivs |-> intervals])
            IN  /\ intervals' = st.ivs
                /\ timerRef' = st.ref
                /\ isPlaying' = TRUE
    /\ UNCHANGED <<mediaElements, selectedElement, currentTime, revoked, dateNow,
                   items, isVisibleProp, sess>>
    /\ lastEvent' = "toggle"

\* video-edior.tsx:94-107  one firing of interval id
\* Faulty variant of TickWraps: the end of the timeline itself does not wrap.
TickWrapsStrict(prev) == prev + TickDelta > Duration
\* Faulty variant of TickTime: the clock stops at the end without rewinding.
TickTimeNoRewind(prev) == prev + TickDelta
TickWraps(prev) == prev + TickDelta >= Duration
TickTime(prev) == IF TickWraps(prev) THEN 0 ELSE prev + TickDelta
Tick(id) ==
    /\ id \in intervals
    /\ TickInBounds(currentTime)
    /\ IF TickWraps(currentTime)
       THEN /\ intervals' = IF timerRef # 0 THEN ClearInterval(intervals, timerRef) ELSE intervals
            /\ timerRef' = 0
            /\ isPlaying' = FALSE
            /\ currentTime' = TickTime(currentTime)
       ELSE /\ currentTime' = TickTime(currentTime)
            /\ UNCHANGED <<intervals, timerRef, isPlaying>>
    /\ isVisibleProp' = Render(mediaElements, currentTime')
    /\ UNCHANGED <<mediaElements, selectedElement, revoked, dateNow, items, sess>>
    /\ lastEvent' = "tick"

\* Faulty variant of resetPlayback: the interval timerRef names is forgotten
\* without being cancelled.
resetPlaybackKeepsTimer ==
    /\ intervals' = intervals
    /\ timerRef' = 0
    /\ currentTime' = 0
    /\ isPlaying' = FALSE
    /\ isVisibleProp' = Render(mediaElements, currentTime')
    /\ UNCHANGED <<mediaElements, selectedElement, revoked, dateNow, items, sess>>
    /\ lastEvent' = "reset"

\* video-edior.tsx:112-119
resetPlayback ==
    /\ intervals' = IF timerRef # 0 THEN ClearInterval(intervals, timerRef) ELSE intervals
    /\ timerRef' = 0
    /\ currentTime' = 0
    /\ isPlaying' = FALSE
    /\ isVisibleProp' = Render(mediaElements, currentTime')
    /\ UNCHANGED <<mediaElements, selectedElement, revoked, dateNow, items, sess>>
    /\ lastEvent' = "reset"

\* video-edior.tsx:276
SkipForward ==
    /\ currentTime' = Duration
    /\ isVisibleProp' = Render(mediaElements, currentTime')
    /\ UNCHANGED <<mediaElements, selectedElement, isPlaying, timerRef, intervals,
                   revoked, dateNow, items, sess>>
    /\ lastEvent' = "skip"

\* video-edior.tsx:290-297  the slider reports a value in [0, max]
SliderSeek(value) ==
    /\ value >= 0 /\ value <= Duration
    /\ currentTime' = value
    /\ isVisibleProp' = Render(mediaElements, currentTime')
    /\ UNCHANGED <<mediaElements, selectedElement, isPlaying, timerRef, intervals,
                   revoked, dateNow, items, sess>>
    /\ lastEvent' = "seek"

(***************************************************************************)
(* Interaction: the per-item handlers of media-item.tsx                    *)
(***************************************************************************)
InSession(i) == items[i].isDragging \/ items[i].isResizing

\* media-item.tsx:63-69
DragOffsetAt(i, p) == Pt(p.x - RectLeft(i), p.y - RectTop(i))

\* media-item.tsx:59-73  pointer-press on the body of item i, off inside it
handleMouseDown(i, off) ==
    LET p == Pt(RectLeft(i) + off.x, RectTop(i) + off.y)
    IN  /\ Topmost(i, p)
        /\ items' = [items EXCEPT ![i].dragOffset = DragOffsetAt(i, p),
                                  ![i].isDragging = TRUE]
        /\ selectedElement' = mediaElements[i].id
        /\ sess' = [sess EXCEPT ![i].press = p, ![i].last = p,
                                ![i].stored = Pt(mediaElements[i].x, mediaElements[i].y)]
        /\ UNCHANGED <<mediaElements, isPlaying, currentTime, timerRef, intervals,
                       revoked, dateNow, isVisibleProp>>
        /\ lastEvent' = "dragPress"

\* media-item.tsx:182-187  the handle is the bottom-right corner of a selected item
HandlePoint(i) == Pt(RectLeft(i) + items[i].dimensions.width - 1,
                     RectTop(i) + items[i].dimensions.height - 1)

\* media-item.tsx:76-81
handleResizeMouseDown(i) ==
    /\ IsSelected(i)
    /\ Topmost(i, HandlePoint(i))
    /\ items' = [items EXCEPT ![i].isResizing = TRUE]
    /\ selectedElement' = mediaElements[i].id
    /\ sess' = [sess EXCEPT ![i].wasPlaying = isPlaying]
    /\ UNCHANGED <<mediaElements, isPlaying, currentTime, timerRef, intervals,
                   revoked, dateNow, isVisibleProp>>
    /\ lastEvent' = "resizePress"

\* media-item.tsx:87-89
DragPosition(p, offset) == Pt(p.x - offset.x, p.y - offset.y)

\* media-item.tsx:92-95
ResizeDimensions(i, p) ==
    [width  |-> Max(MinSize, p.x - RectLeft(i)),
     height |-> Max(MinSize, p.y - RectTop(i))]

\* media-item.tsx:85-98  the document listener of item i
handleMouseMove(i, p) ==
    IF items[i].isDragging
    THEN [items[i] EXCEPT !.position = DragPosition(p, items[i].dragOffset)]
    ELSE IF items[i].isResizing /\ isVisibleProp[i]
         THEN [items[i] EXCEPT !.dimensions = ResizeDimensions(i, p)]
         ELSE items[i]

\* Faulty variant of PointerMove: every move also writes the dragged position
\* to the store.
PointerMoveCommitting(p) ==
    /\ \E i \in 1..Len(items) : InSession(i)
    /\ items' = [i \in 1..Len(items) |-> handleMouseMove(i, p)]
    /\ mediaElements' =
            [i \in 1..Len(items) |->
                IF items[i].isDragging
                THEN [mediaElements[i] EXCEPT !.x = items'[i].position.x,
                                              !.y = items'[i].position.y]
                ELSE mediaElements[i]]
    /\ sess' = [i \in 1..Len(sess) |->
                    IF items[i].isDragging THEN [sess[i] EXCEPT !.last = p] ELSE sess[i]]
    /\ lastEvent' = "move"
    /\ UNCHANGED <<selectedElement, isPlaying, currentTime, timerRef,
                   intervals, revoked, dateNow, isVisibleProp>>

\* a mousemove on the document: every item with a session has a listener
PointerMove(p) ==
    /\ \E i \in 1..Len(items) : InSession(i)
    /\ items' = [i \in 1..Len(items) |-> handleMouseMove(i, p)]
    /\ sess' = [i \in 1..Len(sess) |->
                    IF items[i].isDragging THEN [sess[i] EXCEPT !.last = p] ELSE sess[i]]
    /\ UNCHANGED <<mediaElements, selectedElement, isPlaying, currentTime, timerRef,
                   intervals, revoked, dateNow, isVisibleProp>>
    /\ lastEvent' = "move"

\* video-edior.tsx:261  restartTimer={isPlaying ? undefined : startPlaybackTimer}
RestartTimerGiven == ~isPlaying

\* media-item.tsx:101-104
MouseUpDragged(i, els) ==
    IF items[i].isDragging
    THEN onDragEnd(els, mediaElements[i].id, items[i].position.x, items[i].position.y)
    ELSE els

\* media-item.tsx:105-106
MouseUpResized(i, els) ==
    IF items[i].isResizing
    THEN onResize(els, mediaElements[i].id,
                  items[i].dimensions.width, items[i].dimensions.height)
    ELSE els

\* media-item.tsx:105-110  restartTimer?.()
MouseUpRestarts(i) == items[i].isResizing /\ RestartTimerGiven

\* media-item.tsx:100-111  a mouseup on the document, taken by the listener of
\* item i.  Its state updates are rendered before the next listener runs, and
\* that render replaces the listeners of the other items, so one mouseup ends
\* the session of one item.
handleMouseUp(i) ==
    /\ InSession(i)
    /\ StoreReplaced(MouseUpResized(i, MouseUpDragged(i, mediaElements)),
                     [items EXCEPT ![i].isDragging = FALSE, ![i].isResizing = FALSE],
                     IF MouseUpRestarts(i)
                     THEN startPlaybackTimer([ref |-> timerRef, ivs |-> intervals])
                     ELSE [ref |-> timerRef, ivs |-> intervals])
    /\ isPlaying' = (isPlaying \/ MouseUpRestarts(i))
    /\ sess' = [sess EXCEPT ![i] = NoSess]
    /\ isVisibleProp' = Render(mediaElements', currentTime)
    /\ UNCHANGED <<selectedElement, currentTime, dateNow>>
    /\ lastEvent' = (IF items[i].isResizing THEN "resizeRelease" ELSE "dragRelease")

(***************************************************************************)
(* Video player (the <video> element of a video item and its two effects)  *)
(***************************************************************************)
Abs(a) == IF a >= 0 THEN a ELSE 0 - a

\* media-item.tsx:150-152, 178  an item that is not visible renders nothing, so
\* its videoRef holds null; a rendered video item holds a <video> element
NoVideo == [mounted |-> FALSE, paused |-> TRUE, pending |-> FALSE, currentTime |-> 0]
FreshVideo == [mounted |-> TRUE, paused |-> TRUE, pending |-> FALSE, currentTime |-> 0]
NoCmd == [playback |-> "none", seek |-> -1]

\* videoRef.current is non-null after the commit of this step
VideoRendered(i) == mediaElements'[i].type = "video" /\ isVisibleProp'[i]

\* the element the ref holds when the effects run: the one kept from the
\* previous render, or a new one when the item was not rendered before
VideoNode(i) == IF i <= Len(video) /\ video[i].mounted THEN video[i] ELSE FreshVideo

\* media-item.tsx:135  [isVisible, isTimelinePlaying, element.type, currentTime]
PlaybackDepsChanged(i) ==
    \/ i > Len(video)
    \/ isVisibleProp'[i] # isVisibleProp[i]
    \/ isPlaying' # isPlaying
    \/ currentTime' # currentTime

\* media-item.tsx:148  [currentTime, element.startTime, element.type, isVisible]
PositionDepsChanged(i) ==
    \/ i > Len(video)
    \/ currentTime' # currentTime
    \/ mediaElements'[i].startTime # mediaElements[i].startTime
    \/ isVisibleProp'[i] # isVisibleProp[i]

\* media-item.tsx:125-134  the call the playback effect makes, if any
PlaybackCmd(i) ==
    IF ~VideoRendered(i) \/ ~PlaybackDepsChanged(i) THEN "none"
    ELSE IF isVisibleProp'[i] /\ isPlaying' THEN "play" ELSE "pause"

\* play() on a paused element leaves a request whose promise settles later;
\* pause() pauses and drops the request
AfterPlayback(i, v) ==
    IF PlaybackCmd(i) = "play"
    THEN IF v.paused THEN [v EXCEPT !.pending = TRUE] ELSE v
    ELSE IF PlaybackCmd(i) = "pause"
         THEN [v EXCEPT !.paused = TRUE, !.pending = FALSE]
         ELSE v

\* media-item.tsx:142
VideoTime(i) == Max(0, currentTime' - mediaElements'[i].startTime)

\* Faulty variant of NeedsSeek: a difference of exactly the threshold seeks.
NeedsSeekAtThreshold(pos, videoTime) == Abs(pos - videoTime) >= ResyncThreshold

\* media-item.tsx:145
NeedsSeek(pos, videoTime) == Abs(pos - videoTime) > ResyncThreshold

\* media-item.tsx:138-147  the assignment the position effect makes, if any
SeekCmd(i) ==
    IF VideoRendered(i) /\ PositionDepsChanged(i)
       /\ NeedsSeek(VideoNode(i).currentTime, VideoTime(i))
    THEN VideoTime(i) ELSE -1

AfterSeek(i, v) == IF SeekCmd(i) # -1 THEN [v EXCEPT !.currentTime = SeekCmd(i)] ELSE v

\* the two effects of every item, run after the commit of a handler
VideoEffects ==
    /\ video' = [i \in 1..Len(mediaElements') |->
                    IF VideoRendered(i)
                    THEN AfterSeek(i, AfterPlayback(i, VideoNode(i)))
                    ELSE NoVideo]
    /\ cmd' = [i \in 1..Len(mediaElements') |->
                    [playback |-> PlaybackCmd(i), seek |-> SeekCmd(i)]]

\* Spec: the player is left out
HoldPlayer == UNCHANGED <<video, cmd>>

HoldEditor ==
    UNCHANGED <<mediaElements, selectedElement, isPlaying, currentTime, timerRef,
                intervals, revoked, dateNow, items, isVisibleProp, sess>>

\* the promise of a play request is fulfilled: the element plays
PlayResolved(i) ==
    /\ video[i].mounted /\ video[i].pending
    /\ video' = [video EXCEPT ![i].pending = FALSE, ![i].paused = FALSE]
    /\ cmd' = [j \in 1..Len(cmd) |-> NoCmd]
    /\ HoldEditor
    /\ lastEvent' = "playResolved"

\* Faulty variant of PlayRejected: the failed request is made again.
PlayRejectedRetries(i) ==
    /\ video[i].mounted /\ video[i].pending
    /\ video' = video
    /\ cmd' = [j \in 1..Len(cmd) |-> IF j = i THEN [NoCmd EXCEPT !.playback = "play"] ELSE NoCmd]
    /\ HoldEditor
    /\ lastEvent' = "playRejected"

\* media-item.tsx:130  the promise is rejected: .catch logs the error
PlayRejected(i) ==
    /\ video[i].mounted /\ video[i].pending
    /\ video' = [video EXCEPT ![i].pending = FALSE]
    /\ cmd' = [j \in 1..Len(cmd) |-> NoCmd]
    /\ HoldEditor
    /\ lastEvent' = "playRejected"

\* a playing element advances its own position; it may run ahead of the
\* clock by at most MaxLead
VideoPlays(i) ==
    /\ video[i].mounted /\ ~video[i].paused
    /\ video[i].currentTime - Max(0, currentTime - mediaElements[i].startTime) < MaxLead
    /\ video' = [video EXCEPT ![i].currentTime = @ + 1]
    /\ cmd' = [j \in 1..Len(cmd) |-> NoCmd]
    /\ HoldEditor
    /\ lastEvent' = "videoPlays"

(***************************************************************************)
(* Specifications                                                          *)
(***************************************************************************)
Next ==
    \/ HoldPlayer /\ \E kind \in Kinds, elapsed \in {0, 1} : handleFileUpload(kind, elapsed)
    \/ HoldPlayer /\ \E v \in SizeEdits : EditProperty("width", v)
    \/ HoldPlayer /\ \E v \in SizeEdits : EditProperty("height", v)
    \/ HoldPlayer /\ \E v \in StartTimeEdits : EditProperty("startTime", v)
    \/ HoldPlayer /\ \E v \in EndTimeEdits : EditProperty("endTime", v)
    \/ HoldPlayer /\ togglePlayback
    \/ HoldPlayer /\ \E id \in intervals : Tick(id)
    \/ HoldPlayer /\ resetPlayback
    \/ HoldPlayer /\ SkipForward
    \/ HoldPlayer /\ \E v \in SeekTargets : SliderSeek(v)
    \/ HoldPlayer /\ \E i \in 1..Len(items), off \in PressOffsets : handleMouseDown(i, off)
    \/ HoldPlayer /\ \E i \in 1..Len(items) : handleResizeMouseDown(i)
    \/ HoldPlayer /\ \E p \in PointerPositions : PointerMove(p)
    \/ HoldPlayer /\ \E i \in 1..Len(items) : handleMouseUp(i)

Spec == Init /\ [][Next]_vars

\* The editor with one video element and its player: upload, the time-window
\* inputs, the clock controls, a resize press and release (which restarts the
\* clock), and the events of the player.
NextVideo ==
    \/ handleFileUpload("video", 1) /\ VideoEffects
    \/ (\E v \in VideoStartTimeEdits : EditProperty("startTime", v)) /\ VideoEffects
    \/ (\E v \in EndTimeEdits : EditProperty("endTime", v)) /\ VideoEffects
    \/ togglePlayback /\ VideoEffects
    \/ (\E id \in intervals : Tick(id)) /\ VideoEffects
    \/ resetPlayback /\ VideoEffects
    \/ SkipForward /\ VideoEffects
    \/ (\E v \in VideoSeekTargets : SliderSeek(v)) /\ VideoEffects
    \/ (\E i \in 1..Len(items) : handleResizeMouseDown(i)) /\ VideoEffects
    \/ (\E i \in 1..Len(items) : handleMouseUp(i)) /\ VideoEffects
    \/ \E i \in 1..Len(video) : PlayResolved(i)
    \/ \E i \in 1..Len(video) : PlayRejected(i)
    \/ \E i \in 1..Len(video) : VideoPlays(i)

SpecVideo == Init /\ [][NextVideo]_vars

\* The editor with up to MaxPairElements images and the clock at rest: upload,
\* the Width input, and drag sessions that can leave two elements overlapping.
NextPair ==
    \/ HoldPlayer /\ \E elapsed \in {0, 1} :
            Len(mediaElements) < MaxPairElements /\ AddElement("image", elapsed)
    \/ HoldPlayer /\ \E v \in SizeEdits : EditProperty("width", v)
    \/ HoldPlayer /\ \E i \in 1..Len(items), off \in PairPressOffsets : handleMouseDown(i, off)
    \/ HoldPlayer /\ \E p \in PairPointerPositions : PointerMove(p)
    \/ HoldPlayer /\ \E i \in 1..Len(items) : handleMouseUp(i)

SpecPair == Init /\ [][NextPair]_vars

(***************************************************************************)
(* Properties                                                              *)
(***************************************************************************)
Elements == 1..Len(mediaElements)

\* A cancelled interval never fires again: the live intervals are at most the
\* one timerRef names, and none is live while the clock is stopped.
TimersTracked ==
    /\ intervals \subseteq {timerRef}
    /\ ~isPlaying => (intervals = {} /\ timerRef = 0)

\* C1: a tick never leaves time > Duration: if prev + delta >= Duration the
\* same tick sets time to 0, stops the clock and leaves no live interval;
\* otherwise time becomes prev + delta and the running flag is unchanged.
C1_TickWrapsOrAdvances ==
    [][lastEvent' = "tick" =>
        /\ currentTime' <= Duration
        /\ IF currentTime + TickDelta >= Duration
           THEN currentTime' = 0 /\ ~isPlaying' /\ intervals' = {} /\ timerRef' = 0
           ELSE currentTime' = currentTime + TickDelta /\ isPlaying' = isPlaying]_vars

\* C1 witness: a tick has just wrapped the clock at the end of the timeline.
C1_Witness ==
    lastEvent = "tick" /\ currentTime = 0 /\ ~isPlaying /\ intervals = {}

\* C2: in every reachable state 0 <= time <= Duration.
C2_TimeInRange == 0 <= currentTime /\ currentTime <= Duration

\* C2 witness: the clock stands at the very end of the timeline while a live
\* interval is about to tick it.
C2_Witness == currentTime = Duration /\ isPlaying /\ intervals # {}

\* C3 (as claimed): the element whose resize session a release ends is stored
\* with width >= 50 and height >= 50.
C3_ResizeCommitFloor ==
    [][\A i \in Elements :
        (items[i].isResizing /\ lastEvent' = "resizeRelease" /\ ~items'[i].isResizing)
        => (mediaElements'[i].width >= MinSize /\ mediaElements'[i].height >= MinSize)]_vars

\* C4 (as claimed): every stored element has width >= 50 and height >= 50.
C4_StoreFloor ==
    \A i \in Elements :
        mediaElements[i].width >= MinSize /\ mediaElements[i].height >= MinSize

\* C5: the visibility passed to every element equals
\* (time >= startTime /\ time <= endTime), so an element with
\* startTime > endTime is visible at no time.
C5_VisibleIffInWindow ==
    \A i \in Elements :
        /\ isVisibleProp[i] <=> (currentTime >= mediaElements[i].startTime
                                 /\ currentTime <= mediaElements[i].endTime)
        /\ mediaElements[i].startTime > mediaElements[i].endTime => ~isVisibleProp[i]

\* C5 witness: an element whose window is inverted, the clock standing on its
\* startTime, is hidden.
C5_Witness ==
    \E i \in Elements :
        /\ mediaElements[i].startTime > mediaElements[i].endTime
        /\ currentTime = mediaElements[i].startTime
        /\ ~isVisibleProp[i]

\* C6 (as claimed): a release of a resize session while the clock is Running
\* with its one interval leaves it Running with that one interval.
C6_StartWhileRunningNoOp ==
    [][(isPlaying /\ Cardinality(intervals) = 1 /\ lastEvent' = "resizeRelease")
        => (isPlaying' /\ intervals' = intervals)]_vars

\* C7 (as claimed), for sessions whose preview no other event has reset: the
\* position a drag release commits is the stored position at press plus the
\* pointer's travel since press.
C7_DragCommitsTravel ==
    [][\A i \in Elements :
        (/\ items[i].isDragging /\ ~items'[i].isDragging
         /\ items[i].position = DragPosition(sess[i].last, items[i].dragOffset)
         /\ mediaElements[i].x = sess[i].stored.x /\ mediaElements[i].y = sess[i].stored.y)
        => /\ mediaElements'[i].x = sess[i].stored.x + (sess[i].last.x - sess[i].press.x)
           /\ mediaElements'[i].y = sess[i].stored.y + (sess[i].last.y - sess[i].press.y)]_vars

Geometry(e) == <<e.x, e.y, e.width, e.height>>

\* C8 (as claimed): while a session of an element lasts, its stored geometry
\* does not change.
C8_StoreFixedDuringSession ==
    [][\A i \in Elements :
        (InSession(i) /\ InSession(i)')
        => Geometry(mediaElements'[i]) = Geometry(mediaElements[i])]_vars

\* C8 (amended): no pointer-move writes the store; while a session of an
\* element lasts, its stored geometry changes only by a property edit or by
\* the release of another element that carries the same id; the release of
\* the session ends it and stores its preview.
C8_CommitOnlyAtRelease ==
    [][/\ lastEvent' = "move" => mediaElements' = mediaElements
       /\ \A i \in Elements :
            /\ (InSession(i) /\ InSession(i)'
                /\ Geometry(mediaElements'[i]) # Geometry(mediaElements[i]))
               => \/ lastEvent' = "edit"
                  \/ \E j \in Elements :
                        /\ j # i /\ mediaElements[j].id = mediaElements[i].id
                        /\ InSession(j) /\ ~InSession(j)'
            /\ (InSession(i) /\ ~InSession(i)')
               => /\ lastEvent' \in {"dragRelease", "resizeRelease"}
                  /\ items[i].isDragging =>
                        (mediaElements'[i].x = items[i].position.x
                         /\ mediaElements'[i].y = items[i].position.y)
                  /\ items[i].isResizing =>
                        (mediaElements'[i].width = items[i].dimensions.width
                         /\ mediaElements'[i].height = items[i].dimensions.height)]_vars

\* C8 witness: a release has just stored a preview that pointer-moves had
\* taken away from the default position.
C8_Witness ==
    \E i \in Elements :
        /\ lastEvent = "dragRelease" /\ ~InSession(i)
        /\ mediaElements[i].x # DefaultX
        /\ items[i].position = Pt(mediaElements[i].x, mediaElements[i].y)

\* C9 (as claimed): a release of a resize session makes the clock Running
\* with a live interval when the clock was Stopped at the press that began the
\* session, and starts nothing when it was Running then.
C9_ResumeIffStoppedAtPress ==
    [][\A i \in Elements :
        (items[i].isResizing /\ lastEvent' = "resizeRelease" /\ ~items'[i].isResizing)
        => IF sess[i].wasPlaying
           THEN isPlaying' = isPlaying /\ intervals' \subseteq intervals
           ELSE isPlaying' /\ intervals' # {}]_vars

\* C10 (as claimed): press, move and release of a drag session leave the
\* running flag, the clock time and the live intervals as they were.
C10_DragLeavesClock ==
    [][lastEvent' \in {"dragPress", "move", "dragRelease"}
        => (isPlaying' = isPlaying /\ currentTime' = currentTime
            /\ intervals' = intervals)]_vars

\* C13 (as claimed): every element in the store has a source handle
\* (object URL) that has not been released.
C13_StoredSourcesLive ==
    \A i \in Elements : mediaElements[i].src \notin revoked

\* C14 (as claimed): while the running flag is true an interval is live to
\* tick the clock; this is what lets a Running clock reach the end of the
\* timeline.
C14_RunningHasScheduler == isPlaying => intervals # {}

\* C15 (as claimed): at most one element has a drag or resize session, and
\* no element is dragging and resizing at once.
C15_OneSession ==
    /\ Cardinality({i \in Elements : InSession(i)}) <= 1
    /\ \A i \in Elements : ~(items[i].isDragging /\ items[i].isResizing)

\* C16: reset playback leaves time 0, the clock Stopped and no live interval,
\* whatever the clock state was; and an interval ticks only while the clock
\* is Running, so no tick changes the time before the clock is started again.
C16_ResetStopsTicks ==
    [][/\ lastEvent' = "reset" =>
            (currentTime' = 0 /\ ~isPlaying' /\ intervals' = {} /\ timerRef' = 0)
       /\ lastEvent' = "tick" => isPlaying]_vars

\* C16 witness: reset has just been pressed while an element is on the canvas,
\* and the clock stands Stopped at 0 with no interval left.
C16_Witness ==
    /\ lastEvent = "reset" /\ Len(mediaElements) > 0
    /\ currentTime = 0 /\ ~isPlaying /\ intervals = {} /\ timerRef = 0

\* C17 (as claimed): once a pointer-move has been delivered to a dragging
\* element, its preview position is the latest pointer minus the offset
\* captured at press, whatever other events come in between.
C17_PreviewFollowsPointer ==
    \A i \in Elements :
        (items[i].isDragging /\ sess[i].last # sess[i].press)
        => items[i].position = DragPosition(sess[i].last, items[i].dragOffset)

\* the items that were mounted as video items before a step
VideoItems == {i \in 1..Len(video) : mediaElements[i].type = "video"}

\* C11 (as claimed): when the clock time, the visibility or the running flag
\* of a video item changes, its player is told to play if the item is visible
\* and the clock is running, and told to pause in every other case.
C11_PlayOrPauseOnChange ==
    [][\A i \in VideoItems :
        (currentTime' # currentTime \/ isPlaying' # isPlaying
         \/ isVisibleProp'[i] # isVisibleProp[i])
        => cmd'[i].playback = (IF isVisibleProp'[i] /\ isPlaying' THEN "play" ELSE "pause")]_vars

\* the position of the player the position effect reads in a step
PlayerPosition(i) == IF video[i].mounted THEN video[i].currentTime ELSE 0

\* C12: on each change of the clock time a visible video is sought to
\* max(0, clock - startTime) exactly when its player's position differs from
\* that by more than 0.2 s; no seek is made for a smaller difference nor for
\* an item that is not visible.
C12_SeekIffDrifted ==
    [][\A i \in VideoItems :
        currentTime' # currentTime =>
            LET localTime == Max(0, currentTime' - mediaElements'[i].startTime)
            IN  cmd'[i].seek =
                    (IF isVisibleProp'[i] /\ Abs(PlayerPosition(i) - localTime) > ResyncThreshold
                     THEN localTime ELSE -1)]_vars

\* C12 witness: a video that starts late on the timeline has just been sought
\* to a local time that is the clock time less its start time.
C12_Witness ==
    \E i \in VideoItems :
        /\ mediaElements[i].startTime > 0
        /\ cmd[i].seek > 0
        /\ cmd[i].seek = currentTime - mediaElements[i].startTime
        /\ video[i].currentTime = cmd[i].seek

\* C18: a rejected play request changes neither clock time, running flag,
\* store nor selection and makes no new request; a play request is made only
\* in a step that changes the visibility, the running flag or the clock time.
C18_PlayFailureIsInert ==
    [][/\ lastEvent' = "playRejected" =>
            /\ UNCHANGED <<currentTime, isPlaying, mediaElements, selectedElement>>
            /\ \A i \in 1..Len(cmd') : cmd'[i].playback = "none"
       /\ \A i \in VideoItems :
            (currentTime' = currentTime /\ isPlaying' = isPlaying
             /\ isVisibleProp'[i] = isVisibleProp[i])
            => cmd'[i].playback # "play"]_vars

\* C18 witness: a play request has just failed: the clock runs, the video is
\* visible and its player stays paused with no request outstanding.
C18_Witness ==
    \E i \in VideoItems :
        /\ lastEvent = "playRejected"
        /\ isPlaying /\ isVisibleProp[i]
        /\ video[i].mounted /\ video[i].paused /\ ~video[i].pending

\* C19 (as claimed): of the visible elements under the pointer the one added
\* last is on top and takes the press, whichever element is selected.
C19_LastAddedOnTop ==
    [][lastEvent' = "dragPress" =>
        \E k \in Elements :
            /\ selectedElement' = mediaElements[k].id /\ items'[k].isDragging
            /\ Inside(k, sess'[k].press)
            /\ \A j \in Elements \ {k} : Inside(j, sess'[k].press) => j < k]_vars

\* C19 (amended): a selected element is on top of every unselected one; of
\* two elements that are both selected or both unselected the one added later
\* is on top.  The element on top under the pointer takes the press.
C19_SelectedThenLastAddedOnTop ==
    [][lastEvent' = "dragPress" =>
        \E k \in Elements :
            /\ selectedElement' = mediaElements[k].id /\ items'[k].isDragging
            /\ Inside(k, sess'[k].press)
            /\ \A j \in Elements \ {k} :
                Inside(j, sess'[k].press) =>
                    \/ IsSelected(k) /\ ~IsSelected(j)
                    \/ IsSelected(k) = IsSelected(j) /\ j < k]_vars

\* C19 witness: a press has just been taken by a selected element although an
\* element added after it, not selected, lies under the same point.
C19_Witness ==
    \E k \in Elements, j \in Elements :
        /\ k < j /\ lastEvent = "dragPress"
        /\ items[k].isDragging /\ ~items[j].isDragging
        /\ IsSelected(k) /\ ~IsSelected(j)
        /\ Inside(k, sess[k].press) /\ Inside(j, sess[k].press)

\* C20 (as claimed): the elements of the store have pairwise distinct ids.
C20_DistinctIds ==
    \A i \in Elements, j \in Elements : i # j => mediaElements[i].id # mediaElements[j].id

====
